---------------------------- MODULE Spec2Model ----------------------------
(***************************************************************************)
(* A model of the SorterBot Raspberry Pi arm controller:                   *)
(*   src/src/servo_control.py  ServoControl  (trajectories, axis moves)    *)
(*   src/src/arm_commands.py   ArmCommands   (sessions, reset, video)      *)
(*   src/src/magnet.py         MagnetControl                               *)
(*                                                                         *)
(* Pulse widths are whole microseconds.  The code computes them as Python  *)
(* floats; here every value is an integer, the sine of the easing curve is *)
(* Bhaskara's rational approximation evaluated in thousandths, and the     *)
(* magnitude of a step is rounded towards the start of the move.  The step *)
(* count, its truncation by int() and the linear ramp are exact.           *)
(***************************************************************************)
EXTENDS Integers, Sequences, FiniteSets, TLC

VARIABLES
    curr_positions,  \* ServoControl.curr_positions, a sequence indexed 1..5
    pw,              \* the pulse width each channel holds (last accepted write)
    strict,          \* whether the channel rejects widths outside 500..2500
    magnet,          \* level of the magnet pin
    prog,            \* per thread: the calls still to make, innermost first
    run,             \* the execute_command invocations in flight
    status,          \* per thread: "idle", "busy", "returned", "raised"
    calls,           \* number of top-level calls made so far
    nfail,           \* execute_command failures since the last top-level call
    recording,       \* camera.camera.recording
    sess,            \* the locals and attributes of infer_and_sort / take_pictures
    trace,           \* what the current top-level call has done, in order
    main             \* the attributes of Main and the locals of its heartbeat

vars == <<curr_positions, pw, strict, magnet, prog, run, status, calls, nfail,
          recording, sess, trace, main>>

\* the state above ServoControl
high == <<magnet, recording, sess, trace, main>>

----------------------------------------------------------------------------
(* Bounds of the model *)

\* top-level calls the main thread makes in one behaviour
MaxCalls == 2

\* training videos recorded in one behaviour (each leaves a pool thread behind)
MaxVideos == 1

----------------------------------------------------------------------------
(* ServoControl.__init__ *)

servos == <<14, 15, 18, 24, 25>>

start_positions == <<1425, 500, 1800, 1780, 1150>>

speeds == [dataset |-> 20, fast |-> 700]

\* the range the ServoControl docstring names for a servo
InRange(v) == 500 <= v /\ v <= 2500

Axes == 0 .. (Len(servos) - 1)

\* Python indexing of a 5-tuple: -5..4 are valid, negative counts from the end
ValidIndex(i) == -Len(servos) <= i /\ i < Len(servos)

Slot(i) == IF i < 0 THEN i + Len(servos) + 1 ELSE i + 1

\* the main thread, and the pool thread each record_training_video leaves
Main == 0

Threads == 0 .. MaxVideos

----------------------------------------------------------------------------
(* ServoControl.execute_command: the trajectory *)

Abs(x) == IF x < 0 THEN -x ELSE x

Sgn(x) == IF x < 0 THEN -1 ELSE 1

\* cmd[2] names the speed; "" stands for a command of two elements
SpeedKnown(name) == name = "" \/ name \in DOMAIN speeds

SpeedOf(name) == IF name = "" THEN speeds["fast"] ELSE speeds[name]

IsDataset(name) == name = "dataset"

rotation_units_per_sec(name) == IF IsDataset(name) THEN 2 ELSE 50

\* int(steps), steps = abs(rotation_units_per_sec * (end - start) / speed)
IntSteps(start, end, name) ==
    (rotation_units_per_sec(name) * Abs(end - start)) \div SpeedOf(name)

\* steps is a whole number: the last trajectory point is the end of the ramp
StepsWhole(start, end, name) ==
    (rotation_units_per_sec(name) * Abs(end - start)) % SpeedOf(name) = 0

\* a trajectory that returns without a write when delta_angle = 0
NumPoints_silent(start, end, name) ==
    IF end = start THEN 0 ELSE IntSteps(start, end, name) + 1

\* number of pulse widths written by the move; delta_angle = 0 takes the
\* ZeroDivisionError branch, which writes start once
NumPoints(start, end, name) ==
    IF end = start THEN 1 ELSE IntSteps(start, end, name) + 1

\* |linear_delta| = step * |delta_angle| / steps = step * speed / units
LinearMag(name, step) == (step * SpeedOf(name)) \div rotation_units_per_sec(name)

\* 1000 * sin(pi * (fq / 1000) - pi / 2), by Bhaskara's approximation
\* sin(pi * t) = 16 t (1 - t) / (5 - 4 t (1 - t)) for 0 <= t <= 1
SinMilli(fq) ==
    LET y == fq - 500
        t == Abs(y)
        p == t * (1000 - t)
        b == (4000 * p) \div (1250000 - p)
    IN  IF y < 0 THEN -b ELSE b

\* linear_delta / delta_angle in thousandths, rounded down
FracMilli(start, end, name, step) ==
    (step * SpeedOf(name) * 1000)
        \div (rotation_units_per_sec(name) * Abs(end - start))

\* the sine term without its phase shift of -pi/2: sin(pi * x) for the
\* fraction x of the move, which rises from the middle to the end and falls
SineMag_unshifted(start, end, name, step) ==
    LET fq == FracMilli(start, end, name, step)
        p  == fq * (1000 - fq)
    IN  (Abs(end - start) * (1000 + (4000 * p) \div (1250000 - p))) \div 2000

\* |sine_delta| = |sin(...) * delta_angle / 2 + delta_angle / 2|
SineMag(start, end, name, step) ==
    (Abs(end - start) * (1000 + SinMilli(FracMilli(start, end, name, step))))
        \div 2000

\* trajectory[step], step = 0 .. int(steps)
Point(start, end, name, step) ==
    IF end = start THEN start
    ELSE IF IsDataset(name)
         THEN start + Sgn(end - start) * LinearMag(name, step)
         ELSE start + Sgn(end - start) * SineMag(start, end, name, step)

\* trajectory[-1]
LastPoint(start, end, name) ==
    Point(start, end, name, NumPoints(start, end, name) - 1)

----------------------------------------------------------------------------
(* Commands and calls *)

Cmd(axis, end, name) == [axis |-> axis, end |-> end, speed |-> name]

\* one call on a thread's stack: the method f, the statement ph it is at,
\* and its arguments (pos and flag; cmds for a bare execute_commands;
\* steps for take_pictures)
Ins(f, ph, pos, flag, cmds) ==
    [f |-> f, ph |-> ph, pos |-> pos, flag |-> flag, cmds |-> cmds, steps |-> <<>>]

NoPos == <<0, 0>>

\* an entry of the trace
Ev(e, pos, flag) == [e |-> e, pos |-> pos, flag |-> flag]

height_offset(is_container) == IF is_container THEN 300 ELSE 0

servo_1_pos(end_pos, is_container) == end_pos[2] - height_offset(is_container)

\* s^3 / 10^4, staged to stay within 32 bits
Cube4(s) == (((s * s) \div 10) * s) \div 1000

\* -7.83e-7 s^3 + 5.26e-3 s^2 - 10.3 s + 7341 + height_offset, rounded
servo_2_pos(end_pos, is_container) ==
    LET s == servo_1_pos(end_pos, is_container)
        hundredths == 734100 + 100 * height_offset(is_container)
                      - (783 * Cube4(s)) \div 1000
                      + (263 * s * s) \div 500
                      - 1030 * s
    IN  (hundredths + 50) \div 100

\* 1.48e-6 s^3 - 8.11e-3 s^2 + 14.2 s - 6634, rounded
servo_3_pos(end_pos, is_container) ==
    LET s == servo_1_pos(end_pos, is_container)
        hundredths == (148 * Cube4(s)) \div 100
                      - (811 * ((s * s) \div 10)) \div 100
                      + 1420 * s
                      - 663400
    IN  (hundredths + 50) \div 100

\* init_arm_position that takes no notice of is_inference
InitCmds_same(ph, is_inference) ==
    IF ph = 1
    THEN << Cmd(2, 1810, "") >>
    ELSE << Cmd(0, 2200, ""),
            Cmd(1, 1200, ""),
            Cmd(3, start_positions[4], ""),
            Cmd(4, start_positions[5], "") >>

\* init_arm_position: the two execute_commands calls
InitCmds(ph, is_inference) ==
    IF ph = 1
    THEN << Cmd(2, 1810, "") >>
    ELSE << Cmd(0, IF is_inference THEN 2000 ELSE 2200, ""),
            Cmd(1, 1200, ""),
            Cmd(3, start_positions[4], ""),
            Cmd(4, start_positions[5], "") >>

\* move_to_position with the reach/rotation move and the dependent-axis move
\* in each other's place
MoveCmds_swapped(ph, end_pos, is_container) ==
    CASE ph = 1 -> << Cmd(2, curr_positions[3], ""), Cmd(3, curr_positions[4], "") >>
      [] ph = 2 -> << Cmd(2, start_positions[3], "") >>
      [] ph = 4 -> << Cmd(1, servo_1_pos(end_pos, is_container), ""),
                      Cmd(0, end_pos[1], "") >>
      [] OTHER  -> << Cmd(2, servo_2_pos(end_pos, is_container), ""),
                      Cmd(3, servo_3_pos(end_pos, is_container), "") >>

\* move_to_position taking the distance from the wrong element of end_pos
MoveCmds_rotation(ph, end_pos, is_container) ==
    CASE ph = 1 -> << Cmd(2, curr_positions[3], ""), Cmd(3, curr_positions[4], "") >>
      [] ph = 2 -> << Cmd(2, start_positions[3], "") >>
      [] ph = 3 -> << Cmd(1, servo_1_pos(end_pos, is_container), ""),
                      Cmd(0, end_pos[1], "") >>
      [] OTHER  -> << Cmd(2, servo_2_pos(<<end_pos[2], end_pos[1]>>, is_container), ""),
                      Cmd(3, servo_3_pos(<<end_pos[2], end_pos[1]>>, is_container), "") >>

\* move_to_position: the four execute_commands calls
MoveCmds(ph, end_pos, is_container) ==
    CASE ph = 1 -> << Cmd(2, curr_positions[3], ""), Cmd(3, curr_positions[4], "") >>
      [] ph = 2 -> << Cmd(2, start_positions[3], "") >>
      [] ph = 3 -> << Cmd(1, servo_1_pos(end_pos, is_container), ""),
                      Cmd(0, end_pos[1], "") >>
      [] OTHER  -> << Cmd(2, servo_2_pos(end_pos, is_container), ""),
                      Cmd(3, servo_3_pos(end_pos, is_container), "") >>

MovePar(ph) == ph # 2

\* reset_arm: the two execute_commands calls (statement 3 is neutralize_servos)
ResetCmds(ph) ==
    IF ph = 1
    THEN << Cmd(2, start_positions[3], "") >>
    ELSE << Cmd(0, start_positions[1], ""),
            Cmd(1, start_positions[2], ""),
            Cmd(3, start_positions[4], "") >>

\* the commands of the execute_commands call a thread is about to make
BatchCmds(ins) ==
    CASE ins.f = "init_arm_position" -> InitCmds(ins.ph, ins.flag)
      [] ins.f = "move_to_position"  -> MoveCmds(ins.ph, ins.pos, ins.flag)
      [] ins.f = "reset_arm"         -> ResetCmds(ins.ph)
      [] OTHER                       -> ins.cmds

\* its parallel argument
BatchPar(ins) ==
    CASE ins.f = "init_arm_position" -> ins.ph = 2
      [] ins.f = "move_to_position"  -> MovePar(ins.ph)
      [] ins.f = "reset_arm"         -> ins.ph = 2
      [] OTHER                       -> ins.flag

\* number of statements of a method
LastPh(f) ==
    CASE f = "init_arm_position"     -> 2
      [] f = "move_to_position"      -> 4
      [] f = "reset_arm"             -> 3
      [] f = "infer_and_sort"        -> 7
      [] f = "take_pictures"         -> 5
      [] f = "record_training_video" -> 2
      [] f = "close"                 -> 3
      [] OTHER                       -> 1

\* the statement is an execute_commands call
IsExec(ins) ==
    \/ ins.f \in {"init_arm_position", "move_to_position", "execute_commands"}
    \/ ins.f = "reset_arm" /\ ins.ph < 3

\* the statement is a neutralize_servos call
IsNeutralize(ins) ==
    \/ ins.f = "reset_arm" /\ ins.ph = 3
    \/ ins.f = "close" /\ ins.ph = 3

Top(t) == Head(prog[t])

\* the stack once the current statement has completed
Advance(t) ==
    IF Top(t).ph < LastPh(Top(t).f)
    THEN <<[Top(t) EXCEPT !.ph = @ + 1]>> \o Tail(prog[t])
    ELSE Tail(prog[t])

StatusAfter(t, stack) == IF stack = <<>> THEN "returned" ELSE status[t]

At(t, f, ph) == prog[t] # <<>> /\ Top(t).f = f /\ Top(t).ph = ph

\* thread t goes on with the given stack
Goto(t, stack) ==
    /\ prog' = [prog EXCEPT ![t] = stack]
    /\ status' = [status EXCEPT ![t] = StatusAfter(t, stack)]

\* an exception leaves every frame of thread t: no method of the repository
\* catches one, and a pool thread keeps it in a future nobody reads
Throw(t) ==
    /\ prog' = [prog EXCEPT ![t] = <<>>]
    /\ status' = [status EXCEPT ![t] = "raised"]

----------------------------------------------------------------------------
(* execute_command invocations *)

NewWorker(t, ins, i) ==
    [t |-> t, f |-> ins.f, ph |-> ins.ph, i |-> i, par |-> BatchPar(ins),
     axis |-> BatchCmds(ins)[i].axis, end |-> BatchCmds(ins)[i].end,
     speed |-> BatchCmds(ins)[i].speed,
     st |-> "new", start |-> 0, idx |-> 0]

Finished(w) == w.st \in {"done", "rejected", "error"}

Failed(w) == w.st \in {"rejected", "error"}

\* the invocations of the execute_commands call thread t is in
Batch(t) ==
    IF prog[t] = <<>> THEN {}
    ELSE {w \in run : w.t = t /\ w.f = Top(t).f /\ w.ph = Top(t).ph}

\* set_servo_pulsewidth takes the width: 0 switches the pulses off
Accepts(v) == ~strict \/ v = 0 \/ InRange(v)

\* execute_commands that does not wait for its pool
JoinReady_nowait(t) == TRUE

\* executor.shutdown(wait=True), or the end of the sequential loop
JoinReady(t) ==
    IF BatchPar(Top(t))
    THEN \A w \in Batch(t) : Finished(w)
    ELSE \A w \in Batch(t) : w.st = "done"

\* the stored positions while the write loop runs: it leaves them alone
CurrAfterLoop(w) == curr_positions

\* execute_commands: submit every command, or start the sequential loop
Dispatch(t) ==
    /\ prog[t] # <<>>
    /\ IsExec(Top(t))
    /\ Batch(t) = {}
    /\ run' = run \cup {NewWorker(t, Top(t), i) : i \in 1 .. Len(BatchCmds(Top(t)))}
    /\ trace' = IF At(t, "move_to_position", 1)
                THEN Append(trace, Ev("move", Top(t).pos, Top(t).flag))
                ELSE IF Top(t).f = "reset_arm"
                THEN trace \o [k \in 1 .. Len(BatchCmds(Top(t))) |->
                                 Ev("home", << BatchCmds(Top(t))[k].axis,
                                               BatchCmds(Top(t))[k].end >>,
                                    BatchPar(Top(t)))]
                ELSE trace
    /\ UNCHANGED <<curr_positions, pw, strict, prog, status, calls, nfail,
                   magnet, recording, sess, main>>

\* an execute_command that takes a speed name it does not know as "fast"
Begin_fallback(w) ==
    /\ w.st = "new"
    /\ w.par \/ \A u \in run : (u.t = w.t /\ u.f = w.f /\ u.ph = w.ph /\ u.i < w.i)
                                  => u.st = "done"
    /\ IF ValidIndex(w.axis)
       THEN /\ run' = (run \ {w}) \cup
                      {[w EXCEPT !.st = "writing", !.start = curr_positions[Slot(w.axis)],
                                 !.speed = IF SpeedKnown(w.speed) THEN w.speed ELSE "fast"]}
            /\ nfail' = nfail
       ELSE /\ run' = (run \ {w}) \cup {[w EXCEPT !.st = "error"]}
            /\ nfail' = nfail + 1
    /\ UNCHANGED <<curr_positions, pw, strict, prog, status, calls, high>>

\* execute_command up to the trajectory: index the servo, read the stored
\* position, look the speed up
Begin(w) ==
    /\ w.st = "new"
    /\ w.par \/ \A u \in run : (u.t = w.t /\ u.f = w.f /\ u.ph = w.ph /\ u.i < w.i)
                                  => u.st = "done"
    /\ IF ValidIndex(w.axis) /\ SpeedKnown(w.speed)
       THEN /\ run' = (run \ {w}) \cup
                      {[w EXCEPT !.st = "writing", !.start = curr_positions[Slot(w.axis)]]}
            /\ nfail' = nfail
       ELSE /\ run' = (run \ {w}) \cup {[w EXCEPT !.st = "error"]}
            /\ nfail' = nfail + 1
    /\ UNCHANGED <<curr_positions, pw, strict, prog, status, calls, high>>

\* number of pulse widths of the trajectory the channel takes before it
\* rejects one (all of them when it rejects none)
Taken(start, end, name) ==
    LET n   == NumPoints(start, end, name)
        bad == {k \in 0 .. (n - 1) : ~Accepts(Point(start, end, name, k))}
    IN  IF bad = {} THEN n ELSE CHOOSE k \in bad : \A j \in bad : k <= j

\* the write loop: set_servo_pulsewidth(servo, step) and a sleep for every
\* step of the trajectory, up to the first width the channel rejects.  The
\* widths of one move go to one channel; the loop is taken as one step.
WriteLoop(w) ==
    /\ w.st = "writing"
    /\ LET n == NumPoints(w.start, w.end, w.speed)
           m == Taken(w.start, w.end, w.speed)
       IN  /\ pw' = IF m = 0 THEN pw
                    ELSE [pw EXCEPT ![Slot(w.axis)] = Point(w.start, w.end, w.speed, m - 1)]
           /\ run' = (run \ {w}) \cup
                     {[w EXCEPT !.idx = m,
                                !.st = IF m < n THEN "rejected"
                                       ELSE IF w.end = w.start THEN "done"
                                       ELSE "store"]}
           /\ nfail' = IF m < n THEN nfail + 1 ELSE nfail
    /\ curr_positions' = CurrAfterLoop(w)
    /\ UNCHANGED <<strict, prog, status, calls, high>>

\* self.curr_positions[servo_idx] = trajectory[-1]
Store(w) ==
    /\ w.st = "store"
    /\ curr_positions' = [curr_positions EXCEPT
                            ![Slot(w.axis)] = LastPoint(w.start, w.end, w.speed)]
    /\ run' = (run \ {w}) \cup {[w EXCEPT !.st = "done"]}
    /\ UNCHANGED <<pw, strict, prog, status, calls, nfail, high>>

\* execute_commands returns
Join(t) ==
    /\ prog[t] # <<>>
    /\ IsExec(Top(t))
    /\ Batch(t) # {}
    /\ JoinReady(t)
    /\ run' = run \ {w \in Batch(t) : Finished(w)}
    /\ Goto(t, Advance(t))
    /\ trace' = IF At(t, "move_to_position", 4)
                THEN Append(trace, Ev("moved", Top(t).pos, Top(t).flag))
                ELSE trace
    /\ UNCHANGED <<curr_positions, pw, strict, calls, nfail, magnet, recording, sess, main>>

\* an execute_command of the sequential loop raised: the exception leaves
\* every frame of the thread (no method of the repository catches it)
Raise(t) ==
    /\ prog[t] # <<>>
    /\ IsExec(Top(t))
    /\ ~BatchPar(Top(t))
    /\ \E w \in Batch(t) : Failed(w)
    /\ run' = run \ Batch(t)
    /\ Throw(t)
    /\ UNCHANGED <<curr_positions, pw, strict, calls, nfail, high>>

\* a neutralize_servos that leaves the last channel out
Neutralize_partial(t) ==
    /\ prog[t] # <<>>
    /\ IsNeutralize(Top(t))
    /\ pw' = [i \in DOMAIN pw |-> IF i < Len(pw) THEN 0 ELSE pw[i]]
    /\ Goto(t, Advance(t))
    /\ trace' = Append(trace, Ev("neutralize_servos", NoPos, FALSE))
    /\ UNCHANGED <<curr_positions, strict, run, calls, nfail, magnet, recording, sess, main>>

\* neutralize_servos: pulse width 0 on every channel
Neutralize(t) ==
    /\ prog[t] # <<>>
    /\ IsNeutralize(Top(t))
    /\ pw' = [i \in DOMAIN pw |-> 0]
    /\ Goto(t, Advance(t))
    /\ trace' = Append(trace, Ev("neutralize_servos", NoPos, FALSE))
    /\ UNCHANGED <<curr_positions, strict, run, calls, nfail, magnet, recording, sess, main>>

----------------------------------------------------------------------------
(* The calls a client of ServoControl and ArmCommands makes *)

\* (rotation pulse width, distance) targets handed to move_to_position
Positions == { <<1500, 900>>, <<1800, 1100>> }

\* command tuples handed to execute_commands, with its parallel argument
Batches ==
    { <<TRUE,  << Cmd(0, 1446, ""), Cmd(1, 514, "") >> >>,
      <<TRUE,  << Cmd(0, 1453, "slow"), Cmd(1, 528, "") >> >>,
      <<TRUE,  << Cmd(5, 1500, ""), Cmd(-1, 1164, "") >> >>,
      <<FALSE, << Cmd(0, 1460, "dataset"), Cmd(3, 1780, "fast") >> >>,
      <<FALSE, << Cmd(0, 1500, "slow"), Cmd(1, 528, "") >> >>,
      <<TRUE,  << Cmd(0, 1430, ""), Cmd(3, 1780, ""), Cmd(4, 1150, "dataset") >> >> }

\* before the first infer_and_sort: no session_id attribute; the other
\* fields are locals of infer_and_sort and take_pictures, gone with the call
NoSession == [has_id |-> FALSE, all_success |-> FALSE, commands |-> <<>>,
              received |-> <<>>, results |-> <<>>, failed_images |-> <<>>]

CanCall == status[Main] # "busy" /\ calls < MaxCalls

StartCall(stack) ==
    /\ CanCall
    /\ prog' = [prog EXCEPT ![Main] = stack]
    /\ status' = [status EXCEPT ![Main] = "busy"]
    /\ calls' = calls + 1
    /\ nfail' = 0
    /\ trace' = <<Ev(stack[1].f, NoPos, FALSE)>>
    /\ sess' = [NoSession EXCEPT !.has_id = sess.has_id]
    /\ UNCHANGED <<curr_positions, pw, strict, run, magnet, recording, main>>

CallInit ==
    \E b \in BOOLEAN : StartCall(<<Ins("init_arm_position", 1, NoPos, b, <<>>)>>)

\* targets a client hands to move_to_position: two of them at one distance
Targets == Positions \cup { <<1800, 900>> }

CallMove ==
    \E p \in Targets, c \in BOOLEAN :
        StartCall(<<Ins("move_to_position", 1, p, c, <<>>)>>)

CallReset == StartCall(<<Ins("reset_arm", 1, NoPos, FALSE, <<>>)>>)

CallExec ==
    \E b \in Batches : StartCall(<<Ins("execute_commands", 1, NoPos, b[1], b[2])>>)

----------------------------------------------------------------------------
\* ArmCommands and MagnetControl.  The camera, the Control Panel and the
\* Cloud service are the environment: each request either answers or raises.

\* pulse widths of servo 0 where infer_and_sort takes its pictures
steps == <<1000>>

\* step lists handed to take_pictures
StepLists == { steps, <<2000, 1000>>, <<400>> }

\* texts the Cloud service answers to an image; Python takes "" as false
Responses == { "", "ok" }

Truthy(m) == m # ""

\* (pick, drop) pairs of a session's command list
Pairs == { pd \in Positions \X Positions : pd[1] # pd[2] }

\* longest command list the Cloud service sends
MaxPairs == 2

CommandLists == UNION { [1 .. n -> Pairs] : n \in 0 .. MaxPairs }

PicturesFrame(st, is_after) ==
    [Ins("take_pictures", 1, NoPos, is_after, <<>>) EXCEPT !.steps = st]

Simple(f) == Ins(f, 1, NoPos, FALSE, <<>>)

\* one iteration of the loop over the commands, magnet calls misplaced
PairCalls_late(cmd) ==
    << Ins("move_to_position", 1, cmd[1], FALSE, <<>>),
       Ins("move_to_position", 1, cmd[2], TRUE, <<>>),
       Simple("magnet_on"),
       Simple("magnet_off") >>

\* one iteration of the loop over the commands
PairCalls(cmd) ==
    << Ins("move_to_position", 1, cmd[1], FALSE, <<>>),
       Simple("magnet_on"),
       Ins("move_to_position", 1, cmd[2], TRUE, <<>>),
       Simple("magnet_off") >>

Log(e) == trace' = Append(trace, Ev(e, NoPos, FALSE))

\* MagnetControl.on
MagnetOn(t) ==
    /\ At(t, "magnet_on", 1)
    /\ magnet' = "HIGH"
    /\ Log("on")
    /\ Goto(t, Advance(t))
    /\ UNCHANGED <<curr_positions, pw, strict, run, calls, nfail, recording, sess, main>>

\* an off that writes the level on writes
MagnetOff_high(t) ==
    /\ At(t, "magnet_off", 1)
    /\ magnet' = "HIGH"
    /\ Log("off")
    /\ Goto(t, Advance(t))
    /\ UNCHANGED <<curr_positions, pw, strict, run, calls, nfail, recording, sess, main>>

\* MagnetControl.off
MagnetOff(t) ==
    /\ At(t, "magnet_off", 1)
    /\ magnet' = "LOW"
    /\ Log("off")
    /\ Goto(t, Advance(t))
    /\ UNCHANGED <<curr_positions, pw, strict, run, calls, nfail, recording, sess, main>>

\* infer_and_sort up to the session_id: the locals are fresh, the request
\* to the Control Panel answers or raises
SessionCreate(t) ==
    /\ At(t, "infer_and_sort", 1)
    /\ \/ /\ sess' = [NoSession EXCEPT !.has_id = TRUE]
          /\ Goto(t, Advance(t))
       \/ /\ sess' = sess
          /\ Throw(t)
    /\ UNCHANGED <<curr_positions, pw, strict, run, calls, nfail, magnet, recording, trace, main>>

\* infer_and_sort calls take_pictures, before and after the commands
SessionPictures(t) ==
    /\ At(t, "infer_and_sort", 2) \/ At(t, "infer_and_sort", 5)
    /\ Goto(t, <<PicturesFrame(steps, Top(t).ph = 5)>> \o Advance(t))
    /\ UNCHANGED <<curr_positions, pw, strict, run, calls, nfail, high>>

\* an infer_and_sort that asks for the commands whatever take_pictures said
SessionCommands_always(t) ==
    /\ At(t, "infer_and_sort", 3)
    /\ \/ \E cl \in CommandLists :
            /\ sess' = [sess EXCEPT !.commands = cl, !.received = cl]
            /\ trace' = trace \o << Ev("request_commands", NoPos, FALSE),
                                    Ev("get_commands", NoPos, cl # <<>>) >>
            /\ Goto(t, Advance(t))
       \/ /\ Throw(t)
          /\ Log("request_commands")
          /\ UNCHANGED sess
    /\ UNCHANGED <<curr_positions, pw, strict, run, calls, nfail, magnet, recording, main>>

\* infer_and_sort asks for the commands if every image succeeded: the
\* request is sent, and the list is received or the exchange raises
SessionCommands(t) ==
    /\ At(t, "infer_and_sort", 3)
    /\ IF sess.all_success
       THEN \/ \E cl \in CommandLists :
                 /\ sess' = [sess EXCEPT !.commands = cl, !.received = cl]
                 /\ trace' = trace \o << Ev("request_commands", NoPos, FALSE),
                                         Ev("get_commands", NoPos, cl # <<>>) >>
                 /\ Goto(t, Advance(t))
            \/ /\ Throw(t)
               /\ Log("request_commands")
               /\ UNCHANGED sess
       ELSE /\ sess' = [sess EXCEPT !.commands = <<>>, !.received = <<>>]
            /\ Goto(t, Advance(t))
            /\ UNCHANGED trace
    /\ UNCHANGED <<curr_positions, pw, strict, run, calls, nfail, magnet, recording, main>>

\* the loop over the commands: the next pair, or past the loop
SessionLoop(t) ==
    /\ At(t, "infer_and_sort", 4)
    /\ IF sess.commands # <<>>
       THEN /\ Goto(t, PairCalls(Head(sess.commands)) \o prog[t])
            /\ sess' = [sess EXCEPT !.commands = Tail(@)]
       ELSE /\ Goto(t, Advance(t))
            /\ sess' = sess
    /\ UNCHANGED <<curr_positions, pw, strict, run, calls, nfail, magnet, recording, trace, main>>

\* the stitching request is sent or raises
SessionStitch(t) ==
    /\ At(t, "infer_and_sort", 6)
    /\ \/ /\ Goto(t, Advance(t))
          /\ Log("stitch_after_image")
       \/ /\ Throw(t)
          /\ UNCHANGED trace
    /\ UNCHANGED <<curr_positions, pw, strict, run, calls, nfail, magnet, recording, sess, main>>

\* infer_and_sort and close call reset_arm
ResetCall(t) ==
    /\ At(t, "infer_and_sort", 7) \/ At(t, "close", 2)
    /\ Goto(t, <<Simple("reset_arm")>> \o Advance(t))
    /\ Log("reset_arm")
    /\ UNCHANGED <<curr_positions, pw, strict, run, calls, nfail, magnet, recording, sess, main>>

\* take_pictures first moves the arm to the inference position
PicturesInit(t) ==
    /\ At(t, "take_pictures", 1)
    /\ Goto(t, <<Ins("init_arm_position", 1, NoPos, TRUE, <<>>)>> \o Advance(t))
    /\ trace' = Append(trace, Ev("take_pictures", NoPos, Top(t).flag))
    /\ UNCHANGED <<curr_positions, pw, strict, run, calls, nfail, magnet, recording, sess, main>>

\* a loop over the steps that takes the picture without moving the arm
PicturesStep_nomove(t) ==
    /\ At(t, "take_pictures", 2)
    /\ IF Top(t).steps = <<>>
       THEN Goto(t, <<[Top(t) EXCEPT !.ph = 4]>> \o Tail(prog[t]))
       ELSE IF ~sess.has_id
       THEN Throw(t)
       ELSE Goto(t, Advance(t))
    /\ UNCHANGED <<curr_positions, pw, strict, run, calls, nfail, high>>

\* head of the loop over the steps: log_args reads arm_id and session_id,
\* then the arm moves to the step
PicturesStep(t) ==
    /\ At(t, "take_pictures", 2)
    /\ IF Top(t).steps = <<>>
       THEN Goto(t, <<[Top(t) EXCEPT !.ph = 4]>> \o Tail(prog[t]))
       ELSE IF ~sess.has_id
       THEN Throw(t)
       ELSE Goto(t, <<Ins("execute_commands", 1, NoPos, FALSE,
                          <<Cmd(0, Head(Top(t).steps), "")>>)>> \o Advance(t))
    /\ UNCHANGED <<curr_positions, pw, strict, run, calls, nfail, high>>

\* the camera takes the picture of the step, or raises
PicturesCapture(t) ==
    /\ At(t, "take_pictures", 3)
    /\ \/ /\ Goto(t, <<[Top(t) EXCEPT !.ph = 2, !.steps = Tail(@),
                                      !.pos = <<Head(Top(t).steps), 0>>]>>
                     \o Tail(prog[t]))
          /\ trace' = Append(trace, Ev("take_picture",
                                       <<Head(Top(t).steps), 0>>, Top(t).flag))
       \/ /\ Throw(t)
          /\ UNCHANGED trace
    /\ UNCHANGED <<curr_positions, pw, strict, run, calls, nfail, magnet, recording, sess, main>>

\* after the loop: one send_image_for_processing, for the step the loop
\* ended on; its future gives the answer of the Cloud service or raises
PicturesSend(t) ==
    /\ At(t, "take_pictures", 4)
    /\ \/ \E r \in Responses :
            /\ sess' = [sess EXCEPT !.results =
                           << [image_id |-> Top(t).pos[1], success |-> r] >>]
            /\ trace' = Append(trace, Ev("send_image", Top(t).pos, Top(t).flag))
            /\ Goto(t, Advance(t))
       \/ /\ Throw(t)
          /\ UNCHANGED <<sess, trace>>
    /\ UNCHANGED <<curr_positions, pw, strict, run, calls, nfail, magnet, recording, main>>

\* [res["image_id"] for res in results if not res["success"]]
FailedImages(results) ==
    LET bad(r) == ~Truthy(r.success)
        id(k) == SelectSeq(results, bad)[k].image_id
    IN  [k \in 1 .. Len(SelectSeq(results, bad)) |-> id(k)]

\* take_pictures computes all_success and failed_images and returns
PicturesReturn(t) ==
    /\ At(t, "take_pictures", 5)
    /\ LET ok == \A i \in DOMAIN sess.results : Truthy(sess.results[i].success)
       IN  /\ sess' = [sess EXCEPT !.all_success = ok,
                                   !.failed_images = FailedImages(sess.results)]
           /\ trace' = Append(trace, Ev("all_success", NoPos, ok))
    /\ Goto(t, Advance(t))
    /\ UNCHANGED <<curr_positions, pw, strict, run, calls, nfail, magnet, recording, main>>

\* record_training_video: the camera records while servo 0 sweeps
VideoRecord(t) ==
    /\ At(t, "record_training_video", 1)
    /\ recording' = TRUE
    /\ Goto(t, <<Ins("execute_commands", 1, NoPos, FALSE,
                     <<Cmd(0, 800, "dataset")>>)>> \o Advance(t))
    /\ UNCHANGED <<curr_positions, pw, strict, run, calls, nfail, magnet, sess, trace, main>>

\* the lowest pool thread not yet used
FreeThread == CHOOSE b \in Threads \ {Main} :
                  /\ status[b] = "idle"
                  /\ \A c \in Threads \ {Main} : status[c] = "idle" => b <= c

\* record_training_video: the camera stops, init_arm_position is handed to
\* a pool thread and the method returns without waiting for it
VideoFinish(t) ==
    /\ At(t, "record_training_video", 2)
    /\ recording' = FALSE
    /\ LET b == FreeThread
       IN  /\ prog' = [prog EXCEPT ![t] = Advance(t),
                                   ![b] = <<Ins("init_arm_position", 1, NoPos, FALSE, <<>>)>>]
           /\ status' = [status EXCEPT ![t] = StatusAfter(t, Advance(t)),
                                       ![b] = "busy"]
    /\ Log("submit_init_arm_position")
    /\ UNCHANGED <<curr_positions, pw, strict, run, calls, nfail, magnet, sess, main>>

\* close: the camera is stopped if it is recording
CloseCamera(t) ==
    /\ At(t, "close", 1)
    /\ recording' = FALSE
    /\ Goto(t, Advance(t))
    /\ UNCHANGED <<curr_positions, pw, strict, run, calls, nfail, magnet, sess, trace, main>>

\* what ends the statement main = Main() of the script: Main.__init__ calls
\* ArmCommands() without the config_path its __init__ requires, or the user
\* interrupts the start; the statement stands before the try of the script
MainErrors == { "TypeError", "KeyboardInterrupt" }

\* main.py run as a script, up to the end of main = Main()
MainConstruct(t) ==
    /\ At(t, "__main__", 1)
    /\ \E e \in MainErrors : Log(e)
    /\ Throw(t)
    /\ UNCHANGED <<curr_positions, pw, strict, run, calls, nfail, magnet, recording, sess, main>>

CallMain == StartCall(<<Simple("__main__")>>)

CallSession == StartCall(<<Simple("infer_and_sort")>>)

CallPictures ==
    \E st \in StepLists, a \in BOOLEAN : StartCall(<<PicturesFrame(st, a)>>)

CallVideo ==
    /\ \E b \in Threads \ {Main} : status[b] = "idle"
    /\ StartCall(<<Simple("record_training_video")>>)

CallClose == StartCall(<<Simple("close")>>)

----------------------------------------------------------------------------
\* Main: the heartbeat and the loop of the script, for a Main object whose
\* attributes of lines 27-31 are set.  The Control Panel and the Cloud service
\* are the environment.

\* addresses of the Cloud service
Hosts == { "cloud-1", "cloud-2" }

\* what the Control Panel answers to get_cloud_ip: an address, or nothing
\* ("" or null, which Python takes as false)
HostAnswers == Hosts \cup { "" }

\* how an attempt to connect ends: websockets.connect raises, or it gives a
\* connection whose first ping raises, or one that answers the ping
Outcomes == { "refused", "unresponsive", "connected" }

\* Main.__init__ and load_config: no connection object, the saved host.
\* cloud_websocket is "None" or "conn", a connection object whose open
\* attribute is cloud_open; ret is the value the method called last returned;
\* checked tells what the heartbeat did last about the Cloud connection;
\* control_up tells whether the Control Panel is reachable
NoMain == [control_websocket |-> "None", control_open |-> FALSE,
           control_up |-> TRUE,
           cloud_websocket |-> "None", cloud_open |-> FALSE,
           cloud_url |-> "", cloud_host |-> "cloud-1", file |-> "cloud-1",
           cloud_conn_status |-> 0, should_start_session |-> 0,
           ret |-> 0, checked |-> ""]

\* connect_cloud(cloud_host), "" standing for no argument
ConnectCloud(m, cloud_host, outcome) ==
    LET url == IF cloud_host # "" THEN cloud_host ELSE m.cloud_host
    IN  CASE outcome = "refused" ->
               [m EXCEPT !.cloud_url = url, !.ret = 0, !.checked = outcome]
          [] outcome = "unresponsive" ->
               [m EXCEPT !.cloud_url = url, !.cloud_websocket = "conn",
                         !.cloud_open = FALSE, !.ret = 0, !.checked = outcome]
          [] OTHER ->
               [m EXCEPT !.cloud_url = url, !.cloud_websocket = "conn",
                         !.cloud_open = TRUE, !.ret = 1, !.checked = outcome]

\* how connect_cloud(cloud_host) can end: with no host in the argument and
\* none saved there is nothing to connect to
AttemptOutcomes(m, cloud_host) ==
    IF cloud_host = "" /\ m.cloud_host = "" THEN { "refused" } ELSE Outcomes

\* a ping_cloud that leaves the dead connection in place
PingCloud_keep(m, pong) ==
    IF pong
    THEN [m EXCEPT !.ret = 1, !.checked = "ping_ok"]
    ELSE [m EXCEPT !.ret = 0, !.checked = "ping_failed"]

\* ping_cloud: the pong arrives, or the ping raises and the connection is
\* closed and forgotten
PingCloud(m, pong) ==
    IF pong
    THEN [m EXCEPT !.ret = 1, !.checked = "ping_ok"]
    ELSE [m EXCEPT !.cloud_open = FALSE, !.cloud_websocket = "None",
                   !.ret = 0, !.checked = "ping_failed"]

\* load_config: the configuration in memory is what the file holds
LoadConfig(m) == [m EXCEPT !.cloud_host = m.file]

\* get_cloud_host_and_connect, given the answer of the Control Panel
GetCloudHostAndConnect(m, new_cloud_host, outcome) ==
    LET c == ConnectCloud(m, new_cloud_host, outcome)
    IN  IF c.ret = 1
        THEN [LoadConfig([c EXCEPT !.cloud_host = new_cloud_host,
                                   !.file = new_cloud_host]) EXCEPT !.ret = 1]
        ELSE [c EXCEPT !.ret = 0]

\* the script from its try statement on (main.py 200)
CallLoop ==
    /\ calls = 0
    /\ StartCall(<<Ins("__main__", 2, NoPos, FALSE, <<>>)>>)

\* head of the loop: connect_control is called if there is no open
\* connection to the Control Panel, which is reachable then or not; else
\* heartbeat is called and sets cloud_conn_status = 0
LoopHead(t) ==
    /\ At(t, "__main__", 2)
    /\ IF main.control_websocket = "None" \/ ~main.control_open
       THEN /\ \E up \in BOOLEAN : main' = [main EXCEPT !.control_up = up]
            /\ Goto(t, <<Simple("connect_control")>> \o prog[t])
       ELSE /\ main' = [main EXCEPT !.cloud_conn_status = 0]
            /\ Goto(t, <<Simple("heartbeat"), [Top(t) EXCEPT !.ph = 3]>>
                          \o Tail(prog[t]))
    /\ UNCHANGED <<curr_positions, pw, strict, run, calls, nfail, magnet,
                   recording, sess, trace>>

\* a connect_control that returns after its first attempt, whatever came of it
ConnectControl_once(t) ==
    /\ At(t, "connect_control", 1)
    /\ IF main.control_up
       THEN main' = [main EXCEPT !.control_websocket = "conn", !.control_open = TRUE]
       ELSE \E o \in Outcomes \ { "connected" } :
               main' = IF o = "refused" THEN main
                       ELSE [main EXCEPT !.control_websocket = "conn",
                                         !.control_open = FALSE]
    /\ Goto(t, Tail(prog[t]))
    /\ UNCHANGED <<curr_positions, pw, strict, run, calls, nfail, magnet,
                   recording, sess, trace>>

\* connect_control, one pass of its loop: the attempt gives a connection that
\* answers the ping and the method returns, or it raises one of the errors
\* the except clause names and the loop goes round after the sleep
ConnectControl(t) ==
    /\ At(t, "connect_control", 1)
    /\ IF main.control_up
       THEN /\ main' = [main EXCEPT !.control_websocket = "conn",
                                    !.control_open = TRUE]
            /\ Goto(t, Tail(prog[t]))
       ELSE /\ \E o \in Outcomes \ { "connected" } :
                 main' = IF o = "refused" THEN main
                         ELSE [main EXCEPT !.control_websocket = "conn",
                                           !.control_open = FALSE]
            /\ UNCHANGED <<prog, status>>
    /\ UNCHANGED <<curr_positions, pw, strict, run, calls, nfail, magnet,
                   recording, sess, trace>>

\* the Control Panel becomes reachable while connect_control is trying
ControlComesUp(t) ==
    /\ At(t, "connect_control", 1)
    /\ ~main.control_up
    /\ main' = [main EXCEPT !.control_up = TRUE]
    /\ UNCHANGED <<curr_positions, pw, strict, run, calls, nfail, magnet,
                   recording, sess, trace, prog, status>>

\* heartbeat: ping the connection if there is an open one, else connect_cloud
\* with the saved host; only a failed connect_cloud leads to the fallback
HeartbeatCheck(t) ==
    /\ At(t, "heartbeat", 1)
    /\ IF main.cloud_websocket # "None" /\ main.cloud_open
       THEN \E pong \in BOOLEAN :
               /\ main' = [PingCloud(main, pong) EXCEPT
                              !.cloud_conn_status = PingCloud(main, pong).ret]
               /\ Goto(t, <<[Top(t) EXCEPT !.ph = 3]>> \o Tail(prog[t]))
       ELSE \E o \in AttemptOutcomes(main, "") :
               /\ main' = ConnectCloud(main, "", o)
               /\ Goto(t, <<[Top(t) EXCEPT !.ph =
                                IF ConnectCloud(main, "", o).ret = 1 THEN 3 ELSE 2]>>
                             \o Tail(prog[t]))
    /\ UNCHANGED <<curr_positions, pw, strict, run, calls, nfail, magnet,
                   recording, sess, trace>>

\* heartbeat: get_cloud_host_and_connect; the exchange with the Control
\* Panel answers or raises
HeartbeatFallback(t) ==
    /\ At(t, "heartbeat", 2)
    /\ \/ \E h \in HostAnswers : \E o \in AttemptOutcomes(main, h) :
            /\ main' = [GetCloudHostAndConnect(main, h, o) EXCEPT
                           !.cloud_conn_status = GetCloudHostAndConnect(main, h, o).ret]
            /\ Goto(t, <<[Top(t) EXCEPT !.ph = 3]>> \o Tail(prog[t]))
       \/ /\ main' = main
          /\ Throw(t)
    /\ UNCHANGED <<curr_positions, pw, strict, run, calls, nfail, magnet,
                   recording, sess, trace>>

\* heartbeat: cloud_conn_status is sent to the Control Panel, whose answer
\* is should_start_session; the exchange answers or raises
HeartbeatReport(t) ==
    /\ At(t, "heartbeat", 3)
    /\ \/ \E s \in {0, 1} :
            /\ main' = [main EXCEPT !.should_start_session = s]
            /\ Goto(t, Tail(prog[t]))
       \/ /\ main' = main
          /\ Throw(t)
    /\ UNCHANGED <<curr_positions, pw, strict, run, calls, nfail, magnet,
                   recording, sess, trace>>

\* the loop after heartbeat: a session if should_start_session and
\* cloud_websocket are true, an Exception if only the first is, else the
\* sleep, during which either connection may drop
Decide(t) ==
    /\ At(t, "__main__", 3)
    /\ IF main.should_start_session = 1
       THEN /\ main' = main
            /\ IF main.cloud_websocket # "None"
               THEN Goto(t, <<Simple("infer_and_sort"), [Top(t) EXCEPT !.ph = 4]>>
                               \o Tail(prog[t]))
               ELSE Throw(t)
       ELSE /\ \E cloud_stays, control_stays \in BOOLEAN :
                 main' = [main EXCEPT !.cloud_open = @ /\ cloud_stays,
                                      !.control_open = @ /\ control_stays]
            /\ Goto(t, <<[Top(t) EXCEPT !.ph = 2]>> \o Tail(prog[t]))
    /\ UNCHANGED <<curr_positions, pw, strict, run, calls, nfail, magnet,
                   recording, sess, trace>>

\* infer_and_sort has returned None, which run_until_complete does not take
AfterSession(t) ==
    /\ At(t, "__main__", 4)
    /\ Log("TypeError")
    /\ Throw(t)
    /\ UNCHANGED <<curr_positions, pw, strict, run, calls, nfail, magnet,
                   recording, sess, main>>

----------------------------------------------------------------------------

Init ==
    /\ curr_positions = start_positions
    /\ pw = [i \in DOMAIN servos |-> 0]
    /\ strict \in BOOLEAN
    /\ magnet = "LOW"
    /\ prog = [t \in Threads |-> <<>>]
    /\ run = {}
    /\ status = [t \in Threads |-> "idle"]
    /\ calls = 0
    /\ nfail = 0
    /\ recording = FALSE
    /\ sess = NoSession
    /\ trace = <<>>
    /\ main = NoMain

DispatchAny == \E t \in Threads : Dispatch(t)
BeginAny == \E w \in run : Begin(w)
WriteAny == \E w \in run : WriteLoop(w)
StoreAny == \E w \in run : Store(w)
JoinAny == \E t \in Threads : Join(t)
RaiseAny == \E t \in Threads : Raise(t)
NeutralizeAny == \E t \in Threads : Neutralize(t)

Next ==
    \/ CallInit
    \/ CallMove
    \/ CallReset
    \/ CallExec
    \/ DispatchAny
    \/ BeginAny
    \/ WriteAny
    \/ StoreAny
    \/ JoinAny
    \/ RaiseAny
    \/ NeutralizeAny

Spec == Init /\ [][Next]_vars

MagnetOnAny == \E t \in Threads : MagnetOn(t)
MagnetOffAny == \E t \in Threads : MagnetOff(t)
SessionCreateAny == \E t \in Threads : SessionCreate(t)
SessionPicturesAny == \E t \in Threads : SessionPictures(t)
SessionCommandsAny == \E t \in Threads : SessionCommands(t)
SessionLoopAny == \E t \in Threads : SessionLoop(t)
SessionStitchAny == \E t \in Threads : SessionStitch(t)
ResetCallAny == \E t \in Threads : ResetCall(t)
PicturesInitAny == \E t \in Threads : PicturesInit(t)
PicturesStepAny == \E t \in Threads : PicturesStep(t)
PicturesCaptureAny == \E t \in Threads : PicturesCapture(t)
PicturesSendAny == \E t \in Threads : PicturesSend(t)
PicturesReturnAny == \E t \in Threads : PicturesReturn(t)
VideoRecordAny == \E t \in Threads : VideoRecord(t)
VideoFinishAny == \E t \in Threads : VideoFinish(t)
CloseCameraAny == \E t \in Threads : CloseCamera(t)
MainConstructAny == \E t \in Threads : MainConstruct(t)

\* the steps of the servo workers and of the threads driving them
ServoNext ==
    \/ DispatchAny
    \/ BeginAny
    \/ WriteAny
    \/ StoreAny
    \/ JoinAny
    \/ RaiseAny
    \/ NeutralizeAny

\* a client of ArmCommands running sessions
NextArm ==
    \/ CallSession
    \/ CallPictures
    \/ CallClose
    \/ CallMain
    \/ MainConstructAny
    \/ MagnetOnAny
    \/ MagnetOffAny
    \/ SessionCreateAny
    \/ SessionPicturesAny
    \/ SessionCommandsAny
    \/ SessionLoopAny
    \/ SessionStitchAny
    \/ ResetCallAny
    \/ PicturesInitAny
    \/ PicturesStepAny
    \/ PicturesCaptureAny
    \/ PicturesSendAny
    \/ PicturesReturnAny
    \/ CloseCameraAny
    \/ ServoNext

SpecArm == Init /\ [][NextArm]_vars

\* a client recording a training video and going on with the arm
NextVideo ==
    \/ CallVideo
    \/ CallClose
    \/ CallExec
    \/ VideoRecordAny
    \/ VideoFinishAny
    \/ CloseCameraAny
    \/ ResetCallAny
    \/ ServoNext

SpecVideo == Init /\ [][NextVideo]_vars

LoopHeadAny == \E t \in Threads : LoopHead(t)
ConnectControlAny == \E t \in Threads : ConnectControl(t)
ControlComesUpAny == \E t \in Threads : ControlComesUp(t)
HeartbeatCheckAny == \E t \in Threads : HeartbeatCheck(t)
HeartbeatFallbackAny == \E t \in Threads : HeartbeatFallback(t)
HeartbeatReportAny == \E t \in Threads : HeartbeatReport(t)
DecideAny == \E t \in Threads : Decide(t)
AfterSessionAny == \E t \in Threads : AfterSession(t)

\* the script: heartbeats, and the session one of them starts
NextMain ==
    \/ CallLoop
    \/ LoopHeadAny
    \/ ConnectControlAny
    \/ ControlComesUpAny
    \/ HeartbeatCheckAny
    \/ HeartbeatFallbackAny
    \/ HeartbeatReportAny
    \/ DecideAny
    \/ AfterSessionAny
    \/ MagnetOnAny
    \/ MagnetOffAny
    \/ SessionCreateAny
    \/ SessionPicturesAny
    \/ SessionCommandsAny
    \/ SessionLoopAny
    \/ SessionStitchAny
    \/ ResetCallAny
    \/ PicturesInitAny
    \/ PicturesStepAny
    \/ PicturesCaptureAny
    \/ PicturesSendAny
    \/ PicturesReturnAny
    \/ DispatchAny
    \/ BeginAny
    \/ WriteAny
    \/ StoreAny
    \/ JoinAny
    \/ NeutralizeAny

SpecMain == Init /\ [][NextMain]_vars

\* the script, with the event loop running whatever connect_control has to
\* do next: its sleep ends and the next attempt is made
SpecMainFair == SpecMain /\ WF_vars(ConnectControlAny)

----------------------------------------------------------------------------
(* Properties of ServoControl *)

\* the widths an invocation has handed to set_servo_pulsewidth so far: the
\* ones the channel took, and the one it rejected
Handed(w) ==
    IF w.st \in {"new", "writing", "error"} THEN {}
    ELSE {Point(w.start, w.end, w.speed, k) :
            k \in 0 .. (IF w.st = "rejected" THEN w.idx ELSE w.idx - 1)}

\* the last width the channel took from an invocation that wrote them all
LastWritten(w) == Point(w.start, w.end, w.speed, w.idx - 1)

\* thread t is inside the execute_commands call that started w
InCallOf(w) ==
    /\ prog[w.t] # <<>>
    /\ IsExec(Top(w.t))
    /\ Top(w.t).f = w.f
    /\ Top(w.t).ph = w.ph

\* the axes and targets move_to_position is to command in each phase
MovePhaseOK(w) ==
    LET a == Top(w.t)
    IN  CASE w.ph = 1 -> /\ w.axis \in {2, 3}
                         /\ w.par
                         /\ w.end = curr_positions[Slot(w.axis)]
          [] w.ph = 2 -> /\ w.axis = 2
                         /\ ~w.par
                         /\ w.end = start_positions[3]
          [] w.ph = 3 -> /\ w.axis \in {1, 0}
                         /\ w.par
                         /\ w.end = IF w.axis = 0 THEN a.pos[1]
                                    ELSE a.pos[2] - (IF a.flag THEN 300 ELSE 0)
          [] OTHER    -> /\ w.axis \in {2, 3}
                         /\ w.par
                         /\ w.ph = 4
                         /\ w.end = IF w.axis = 2 THEN servo_2_pos(a.pos, a.flag)
                                    ELSE servo_3_pos(a.pos, a.flag)

MovePhaseAxes(ph) ==
    CASE ph = 1 -> {2, 3} [] ph = 2 -> {2} [] ph = 3 -> {0, 1} [] OTHER -> {2, 3}

MoveInv ==
    /\ \A w \in run : w.f = "move_to_position" => InCallOf(w) /\ MovePhaseOK(w)
    /\ \A t \in Threads :
         (prog[t] # <<>> /\ Top(t).f = "move_to_position" /\ Batch(t) # {})
            => {w.axis : w \in Batch(t)} = MovePhaseAxes(Top(t).ph)

\* move_to_position goes from one phase to the next, and only once every
\* move of the phase has finished
MoveStep ==
    \A t \in Threads :
        (prog[t] # <<>> /\ Top(t).f = "move_to_position" /\ prog'[t] # prog[t])
           => /\ Batch(t) # {}
              /\ \A w \in Batch(t) : Finished(w)
              /\ prog'[t] = IF Top(t).ph < 4
                            THEN <<[Top(t) EXCEPT !.ph = @ + 1]>> \o Tail(prog[t])
                            ELSE Tail(prog[t])

\* C1: move_to_position runs its four phases in order and without overlap:
\* (1) axes 2 and 3 at their stored positions together, (2) axis 2 alone to
\* its start position, (3) axis 1 and axis 0 together, (4) axes 2 and 3 to
\* their computed targets together; every execute_command in flight belongs
\* to the phase the caller is in, and the caller leaves a phase only when
\* all of its moves have finished.
C1_FourPhasesInOrder == [](MoveInv) /\ [][MoveStep]_vars

\* a move of the last phase is writing
C1_Witness ==
    \E w \in run : w.f = "move_to_position" /\ w.ph = 4 /\ w.st = "store"

\* C3: while an execute_command spawned by execute_commands(parallel=True)
\* has not finished (a write or the update of the stored position is still
\* to come), the caller is inside that execute_commands call.
C3_ParallelJoins == \A w \in run : (w.par /\ ~Finished(w)) => InCallOf(w)

\* one move of a parallel call has finished, another is still to write, and
\* the caller waits
C3_Witness ==
    \E w \in run, u \in run :
        /\ w.par /\ u.t = w.t /\ u.f = w.f /\ u.ph = w.ph
        /\ w.st = "done" /\ u.st = "writing"

\* C6 (as claimed): a move of at least one planned step ends with the
\* commanded end value as the last pulse width written.
C6_LastWriteIsEnd ==
    \A w \in run :
        (w.st \in {"store", "done"} /\ IntSteps(w.start, w.end, w.speed) >= 1)
           => LastWritten(w) = w.end

StoreStep ==
    \A a \in DOMAIN curr_positions :
        curr_positions'[a] # curr_positions[a]
           => /\ \E w \in run :
                    /\ ValidIndex(w.axis) /\ Slot(w.axis) = a
                    /\ w.st = "store"
                    /\ [w EXCEPT !.st = "done"] \in run'
                    /\ curr_positions'[a] = pw[a]
                    /\ curr_positions'[a] = LastWritten(w)
              /\ \A b \in DOMAIN curr_positions :
                    b # a => curr_positions'[b] = curr_positions[b]

\* C7 (as claimed): a stored position changes only in the step that ends an
\* execute_command for that axis, to the last pulse width that move wrote;
\* no other stored position changes in that step, and while a move is in
\* progress the stored position of its axis is the one the move started from.
C7_StoreOnlyAtEnd ==
    /\ [](\A w \in run : w.st \in {"writing", "store"}
                            => curr_positions[Slot(w.axis)] = w.start)
    /\ [][StoreStep]_vars

\* C8 (as claimed): when execute_commands(cmds, parallel=True) returns, the
\* stored position of every axis it targeted is that command's end value;
\* stated here for the commands whose execute_command did not fail.
C8_ParallelReachesEnd ==
    [][\A t \in Threads :
          (prog[t] # <<>> /\ IsExec(Top(t)) /\ BatchPar(Top(t)) /\ prog'[t] # prog[t])
             => \A w \in Batch(t) :
                   ValidIndex(w.axis) /\ ~Failed(w)
                      => curr_positions[Slot(w.axis)] = w.end]_vars

\* C9 (as claimed): every stored position and every pulse width handed to a
\* channel during a move lies in 500..2500.
C9_SafeRange ==
    /\ \A a \in DOMAIN curr_positions : InRange(curr_positions[a])
    /\ \A w \in run : \A v \in Handed(w) : InRange(v)

\* C10 (as claimed): a call in which an execute_command failed does not
\* return normally.
C10_FailureSurfaced == status[Main] = "returned" => nfail = 0

\* C15 (as claimed): after a write of a trajectory has been rejected, the
\* stored position of the axis is the last pulse width of the move that the
\* channel took.
C15_AbortKeepsLastWritten ==
    \A w \in run :
        (w.st = "rejected" /\ w.idx >= 1)
           => curr_positions[Slot(w.axis)] = Point(w.start, w.end, w.speed, w.idx - 1)

\* the command tuple an invocation in flight was started with
CmdOf(w) == BatchCmds(Top(w.t))[w.i]

\* an invocation fails before it writes or stores anything
FailsAtOnce(w) ==
    \A u \in run' :
        (u.t = w.t /\ u.f = w.f /\ u.ph = w.ph /\ u.i = w.i /\ u.st # w.st)
           => /\ u.st = "error"
              /\ pw' = pw
              /\ curr_positions' = curr_positions

\* C16: a command without a speed name is executed with the trajectory of
\* 'fast'; a command whose speed name is not a key of speeds fails as
\* soon as it is looked at: it never writes, never stores, and is never run
\* with any profile.
C16_UnknownSpeedFails ==
    /\ [](\A w \in run :
            /\ (CmdOf(w).speed = "" /\ w.st \in {"writing", "store", "done"})
                  => /\ NumPoints(w.start, w.end, w.speed)
                          = NumPoints(w.start, w.end, "fast")
                     /\ \A k \in 0 .. (NumPoints(w.start, w.end, "fast") - 1) :
                           Point(w.start, w.end, w.speed, k)
                              = Point(w.start, w.end, "fast", k)
            /\ (~SpeedKnown(CmdOf(w).speed) /\ ValidIndex(w.axis) /\ w.st # "new")
                  => w.st = "error" /\ w.idx = 0)
    /\ [][\A w \in run :
             (~SpeedKnown(CmdOf(w).speed) /\ ValidIndex(w.axis) /\ w.st = "new")
                => FailsAtOnce(w)]_vars

\* of a parallel call, the command with an unknown speed name has failed and
\* the command without a speed name has moved its axis
C16_Witness ==
    \E w \in run, u \in run :
        /\ u.t = w.t /\ u.f = w.f /\ u.ph = w.ph
        /\ ~SpeedKnown(CmdOf(w).speed) /\ w.st = "error"
        /\ pw[Slot(w.axis)] = 0
        /\ CmdOf(u).speed = "" /\ u.st = "done" /\ u.end # u.start
        /\ curr_positions[Slot(u.axis)] = u.end

\* C17 (as claimed): an execute_command whose axis index is not one of
\* 0 .. len(servos) - 1, negative integers included, fails at once: it
\* never writes and never stores.
C17_InvalidAxisFails ==
    \A w \in run :
        (CmdOf(w).axis \notin 0 .. (Len(servos) - 1) /\ w.st # "new")
           => w.st = "error" /\ w.idx = 0

\* C21: an execute_command whose end is the stored position x of its axis
\* hands exactly one pulse width to the channel, x, whatever its speed
\* profile, and the stored position of the axis is x afterwards.
C21_NoOpWritesOnce ==
    /\ [](\A w \in run :
            (w.end = w.start /\ w.st \notin {"new", "writing", "error"})
               => /\ w.st = "done"
                  /\ w.idx = 1
                  /\ Handed(w) = {w.end}
                  /\ pw[Slot(w.axis)] = w.end
                  /\ curr_positions[Slot(w.axis)] = w.end)
    /\ [][\A w \in run :
             (w.end = w.start /\ w.st = "writing")
                => curr_positions'[Slot(w.axis)] = w.end]_vars

\* no-op moves have been made with the sine profile and with the linear one
C21_Witness ==
    \E w \in run, u \in run :
        /\ w.end = w.start /\ w.st = "done" /\ ~IsDataset(w.speed)
        /\ u.end = u.start /\ u.st = "done" /\ IsDataset(u.speed)
        /\ pw[Slot(w.axis)] = w.end /\ pw[Slot(u.axis)] = u.end

\* C22 (as claimed): an execute_command whose end differs from the stored
\* position by less than one step (int(steps) = 0) hands exactly one pulse
\* width to the channel, the end value, and the stored position becomes end.
C22_ShortMoveSnapsToEnd ==
    \A w \in run :
        (/\ w.st = "done"
         /\ w.end # w.start
         /\ IntSteps(w.start, w.end, w.speed) = 0)
           => /\ w.idx = 1
              /\ Handed(w) = {w.end}
              /\ curr_positions[Slot(w.axis)] = w.end

\* the pulse widths the polynomials of move_to_position give for axes 2 and
\* 3, rounded, by distance and is_container
DependentTargets(distance, is_container) ==
    CASE distance = 900  /\ ~is_container -> <<1761, 656>>
      [] distance = 900  /\ is_container  -> <<3185, -714>>
      [] distance = 1100 /\ ~is_container -> <<1333, 1143>>
      [] distance = 1100 /\ is_container  -> <<2367, 293>>

\* C23: the targets move_to_position commands for axes 2 and 3 in its last
\* phase are given by end_pos[1] and is_container alone: every such command,
\* whatever end_pos[0], the stored positions and the calls made before, has
\* the one target that belongs to its distance and flag.
C23_DependentTargetsByDistance ==
    \A w \in run :
        (w.f = "move_to_position" /\ w.ph = 4)
           => w.end = DependentTargets(Top(w.t).pos[2], Top(w.t).flag)[w.axis - 1]

\* the last phase of a second move_to_position, to the rotation 1800 at the
\* distance 900, is about to start from positions an earlier call has left
C23_Witness ==
    \E w \in run :
        /\ w.f = "move_to_position" /\ w.ph = 4 /\ w.st = "new" /\ w.axis = 3
        /\ Top(w.t).pos = <<1800, 900>>
        /\ calls = 2
        /\ curr_positions[4] # start_positions[4]
        /\ curr_positions[2] # start_positions[2]

\* v lies in the closed interval between a and b
Between(v, a, b) == (a <= v /\ v <= b) \/ (b <= v /\ v <= a)

\* C24: the pulse widths a sine-eased move hands to the channel never step
\* against the direction of end - start, and each lies between start and
\* end, both included.
C24_SineMonotonic ==
    \A w \in run :
        (w.st \in {"store", "done", "rejected"} /\ ~IsDataset(w.speed))
           => LET last == IF w.st = "rejected" THEN w.idx ELSE w.idx - 1
              IN  /\ \A k \in 0 .. last :
                        Between(Point(w.start, w.end, w.speed, k), w.start, w.end)
                  /\ \A k \in 0 .. (last - 1) :
                        Sgn(w.end - w.start)
                           * (Point(w.start, w.end, w.speed, k + 1)
                                - Point(w.start, w.end, w.speed, k)) >= 0

\* sine-eased moves of many steps have been written, one upwards over the
\* whole distance and one downwards
C24_Witness ==
    /\ \E w \in run :
          /\ w.st = "store" /\ ~IsDataset(w.speed)
          /\ w.end > w.start /\ w.idx >= 20
          /\ LastWritten(w) > Point(w.start, w.end, w.speed, 1)
    /\ \E u \in run :
          /\ u.st \in {"store", "done"} /\ ~IsDataset(u.speed)
          /\ u.end < u.start /\ u.idx >= 20

\* the target init_arm_position would have given the command of w had it
\* been called with the other value of is_inference
OtherPose(w) == InitCmds(w.ph, ~Top(w.t).flag)[w.i].end

\* C25 (as claimed): init_arm_position(is_inference=True) and
\* init_arm_position(is_inference=False) command different targets for axis
\* 1 and the same target for every other axis.
C25_PoseDiffersOnReach ==
    \A w \in run :
        w.f = "init_arm_position"
           => IF w.axis = 1 THEN OtherPose(w) # w.end ELSE OtherPose(w) = w.end

\* C25 (amended): the two calls command different targets for axis 0, the
\* rotation axis (2000 for inference, 2200 otherwise), and the same target
\* for each of the axes 1, 2, 3 and 4.
C25_PoseDiffersOnRotation ==
    \A w \in run :
        w.f = "init_arm_position"
           => /\ w.axis \in {0, 1, 2, 3, 4}
              /\ IF w.axis = 0
                 THEN /\ w.end = (IF Top(w.t).flag THEN 2000 ELSE 2200)
                      /\ OtherPose(w) = (IF Top(w.t).flag THEN 2200 ELSE 2000)
                 ELSE OtherPose(w) = w.end

\* an init_arm_position for inference has commanded all five axes; the ones
\* of its second call are in flight
C25_Witness ==
    /\ \E t \in Threads : At(t, "init_arm_position", 2) /\ Top(t).flag
    /\ {w.axis : w \in {u \in run : u.f = "init_arm_position" /\ u.ph = 2}}
          = {0, 1, 3, 4}
    /\ \E w \in run : w.f = "init_arm_position" /\ w.axis = 0 /\ w.end = 2000

\* the homing commands reset_arm has handed to execute_commands since it
\* was last called
Homing ==
    LET from == CHOOSE i \in DOMAIN trace :
                    /\ trace[i].e = "reset_arm"
                    /\ \A j \in DOMAIN trace : trace[j].e = "reset_arm" => j <= i
    IN  {trace[i] : i \in {j \in DOMAIN trace : j > from /\ trace[j].e = "home"}}

\* C18 (as claimed): when reset_arm gets to neutralize_servos, it has
\* commanded every axis 0..4 to its start position, axes 1 and 0 in a
\* parallel call, and none of these moves is still in flight.
C18_ResetHomesEveryAxis ==
    \A t \in Threads :
        At(t, "reset_arm", 3)
           => /\ \A a \in 0 .. (Len(servos) - 1) :
                    \E h \in Homing : h.pos = <<a, start_positions[a + 1]>>
              /\ \A h \in Homing : h.pos[1] \in {0, 1} => h.flag
              /\ \A w \in run : w.t = t => w.f # "reset_arm"

----------------------------------------------------------------------------
\* Properties of ArmCommands

\* the execute_command has read its start position and not yet stored
Moving(w) == w.st \in {"writing", "store"}

\* C2 (as claimed): no two execute_command calls for the same axis run at
\* the same time, whatever operations the client has called, the
\* init_arm_position left behind by record_training_video included.
C2_OneMovePerAxis ==
    \A w1, w2 \in run :
        Moving(w1) /\ Moving(w2) /\ Slot(w1.axis) = Slot(w2.axis) => w1 = w2

\* the call being made, or made last, is an infer_and_sort
InSession == trace # <<>> /\ trace[1].e = "infer_and_sort"

Occurred(e) == \E i \in DOMAIN trace : trace[i].e = e

\* C4 (as claimed): a session that is over, normally or by an exception,
\* has been through reset_arm: the arm homed and the servos neutralized.
C4_SessionReachesReset ==
    InSession /\ status[Main] \in {"returned", "raised"}
        => Occurred("reset_arm") /\ Occurred("neutralize_servos")

PairEvents(cmd) ==
    << Ev("move", cmd[1], FALSE), Ev("moved", cmd[1], FALSE),
       Ev("on", NoPos, FALSE),
       Ev("move", cmd[2], TRUE), Ev("moved", cmd[2], TRUE),
       Ev("off", NoPos, FALSE) >>

RECURSIVE Expected(_)
Expected(cl) ==
    IF cl = <<>> THEN <<>> ELSE PairEvents(Head(cl)) \o Expected(Tail(cl))

IsSorting(ev) == ev.e \in {"move", "moved", "on", "off", "reset_arm"}

IsToggle(ev) == ev.e \in {"on", "off"}

IsPrefix(a, b) == Len(a) <= Len(b) /\ SubSeq(b, 1, Len(a)) = a

\* C5: in a session, the starts and ends of move_to_position, the magnet
\* calls and the reset_arm call happen in the order move(pick), magnet on,
\* move(drop, is_container), magnet off for each received pair in list
\* order, then reset_arm; a completed session has done all of them, and
\* toggled the magnet twice per pair.
C5_PickDropSequence ==
    InSession =>
        LET all == Expected(sess.received) \o <<Ev("reset_arm", NoPos, FALSE)>>
            did == SelectSeq(trace, IsSorting)
        IN  /\ IsPrefix(did, all)
            /\ status[Main] = "returned" =>
                   /\ did = all
                   /\ Len(SelectSeq(trace, IsToggle)) = 2 * Len(sess.received)

\* a session completed with two pairs, the second differing from the first
C5_Witness ==
    /\ InSession
    /\ status[Main] = "returned"
    /\ Len(sess.received) = 2
    /\ sess.received[1] # sess.received[2]
    /\ Len(SelectSeq(trace, IsToggle)) = 4

\* entries of the trace at which a step of the session has failed: the
\* first take_pictures returned all_success = false, or the command list
\* received is empty
StepFailures ==
    {i \in DOMAIN trace :
        \/ /\ trace[i].e = "all_success" /\ ~trace[i].flag
           /\ \A j \in 1 .. (i - 1) : trace[j].e # "all_success"
        \/ trace[i].e = "get_commands" /\ ~trace[i].flag}

IsArmOp(ev) ==
    ev.e \in {"take_pictures", "take_picture", "move", "moved", "on", "off"}

\* C11 (as claimed): once a step of a session has failed, the session does
\* nothing with the arm before it calls reset_arm: no take_pictures pass, no
\* capture, no move_to_position, no magnet call.
C11_FailureGoesToReset ==
    InSession =>
        \A k \in StepFailures : \A j \in DOMAIN trace :
            (j > k /\ IsArmOp(trace[j]))
               => \E m \in (k + 1) .. (j - 1) : trace[m].e = "reset_arm"

\* the entry of the trace with the result of the first take_pictures
FirstResult ==
    {i \in DOMAIN trace :
        /\ trace[i].e = "all_success"
        /\ \A j \in 1 .. (i - 1) : trace[j].e # "all_success"}

IsCommandWork(ev) ==
    ev.e \in {"request_commands", "get_commands", "move", "moved", "on", "off"}

\* C27: in a session, the request for the commands is sent only after the
\* first take_pictures has returned all_success = true; if it returned
\* false, the session sends no such request, receives no list, calls
\* move_to_position never and leaves the magnet untouched.
C27_CommandsOnlyAfterSuccess ==
    InSession =>
        /\ \A j \in DOMAIN trace :
              IsCommandWork(trace[j])
                 => \E i \in FirstResult : i < j /\ trace[i].flag
        /\ \A i \in FirstResult :
              ~trace[i].flag => sess.received = <<>> /\ sess.commands = <<>>

\* a session whose first take_pictures returned false has run to its end
C27_Witness ==
    /\ InSession
    /\ status[Main] = "returned"
    /\ \E i \in FirstResult : ~trace[i].flag
    /\ Occurred("reset_arm")
    /\ SelectSeq(trace, IsCommandWork) = <<>>

\* the steps whose picture the current call has taken
Captured == {trace[i].pos[1] : i \in {j \in DOMAIN trace : trace[j].e = "take_picture"}}

Range(seq) == {seq[i] : i \in DOMAIN seq}

\* C12 (as claimed): when take_pictures returns, every step it captured has
\* a processing result, all_success is true exactly if all of them are
\* successful, and otherwise failed_images is the set of the steps whose
\* result is a failure.
C12_AllSuccessIffEveryStep ==
    (trace # <<>> /\ trace[1].e = "take_pictures" /\ status[Main] = "returned")
        => LET bad == {r.image_id : r \in {x \in Range(sess.results) : ~Truthy(x.success)}}
           IN  /\ {r.image_id : r \in Range(sess.results)} = Captured
               /\ sess.all_success <=> bad = {}
               /\ ~sess.all_success => Range(sess.failed_images) = bad

\* C13 (as claimed): a session that received an empty command list and has
\* returned has not toggled the magnet, has not called move_to_position, and
\* leaves every stored position at its start position.
C13_EmptyListEndsHome ==
    (/\ InSession
     /\ status[Main] = "returned"
     /\ \E i \in DOMAIN trace : trace[i].e = "get_commands" /\ ~trace[i].flag)
        => /\ Len(SelectSeq(trace, IsToggle)) = 0
           /\ ~Occurred("move")
           /\ curr_positions = start_positions

\* main.py is being run, or was run last
InMain == trace # <<>> /\ trace[1].e = "__main__"

\* C14 (as claimed): the process running the main loop does not terminate
\* unless the user interrupts it: it stays in its loop, where it can start
\* the next session.
C14_MainLoopKeepsRunning ==
    (InMain /\ ~Occurred("KeyboardInterrupt")) => status[Main] = "busy"

\* C20 (as claimed): when the process running the main loop ends on a
\* KeyboardInterrupt, neutralize_servos has been performed.
C20_NeutralizeOnExit ==
    (InMain /\ Occurred("KeyboardInterrupt") /\ status[Main] # "busy")
        => Occurred("neutralize_servos")

IsNeutralizeEv(ev) == ev.e = "neutralize_servos"

\* C19: a neutralize_servos call leaves pulse width 0 on every channel and
\* changes neither a stored position, nor the magnet, nor a move in flight;
\* the second of the two calls close makes in a row, the one of reset_arm
\* and its own, changes no pulse width either.
C19_NeutralizeIdempotent ==
    [][\A t \in Threads :
          (prog[t] # <<>> /\ IsNeutralize(Top(t)) /\ prog'[t] # prog[t])
             => /\ pw' = [i \in DOMAIN servos |-> 0]
                /\ curr_positions' = curr_positions
                /\ magnet' = magnet
                /\ run' = run
                /\ At(t, "close", 3) => pw' = pw]_vars

\* close has made both of its neutralize_servos calls, after a session that
\* left a stored position away from its start value
C19_Witness ==
    /\ trace # <<>> /\ trace[1].e = "close"
    /\ status[Main] = "returned"
    /\ Len(SelectSeq(trace, IsNeutralizeEv)) = 2
    /\ pw = [i \in DOMAIN servos |-> 0]
    /\ curr_positions # start_positions

\* index of the take_pictures call the trace ends in (0: none)
LastPass ==
    LET is == {i \in DOMAIN trace : trace[i].e = "take_pictures" /\ i > 1}
    IN  IF is = {} THEN 0 ELSE CHOOSE i \in is : \A k \in is : k <= i

IsCapture(ev) == ev.e = "take_picture"

\* the steps captured by that call so far, in the order of the captures
PassCaptures ==
    LET evs == SelectSeq(SubSeq(trace, LastPass + 1, Len(trace)), IsCapture)
    IN  [k \in DOMAIN evs |-> evs[k].pos[1]]

\* the take_pictures calls on the stack of thread t, past their first statement
PictureFrames(t) ==
    {k \in DOMAIN prog[t] : prog[t][k].f = "take_pictures" /\ prog[t][k].ph > 1}

\* C32: in take_pictures, init_arm_position(is_inference=True) has returned,
\* with all its moves finished, before the first step; the capture of a step
\* comes only when the sequential axis-0 move to that step has returned, its
\* command done; and the captures are those of the steps list, in its order,
\* one per step.
C32_CaptureAfterMove ==
    /\ [](\A t \in Threads : \A k \in PictureFrames(t) :
            /\ PassCaptures \o prog[t][k].steps \in StepLists
            /\ prog[t][k].ph > 3 => prog[t][k].steps = <<>>
            /\ (k > 1 /\ prog[t][k - 1].f = "init_arm_position")
                  => /\ PassCaptures = <<>>
                     /\ prog[t][k].ph = 2
                     /\ prog[t][k - 1].flag)
    /\ [][\A t \in Threads :
             /\ (At(t, "init_arm_position", 2) /\ Len(prog[t]) > 1
                    /\ prog[t][2].f = "take_pictures" /\ prog'[t] # prog[t])
                  => /\ Batch(t) # {}
                     /\ \A w \in Batch(t) : Finished(w)
                     /\ At(t, "take_pictures", 2)'
             /\ (At(t, "take_pictures", 3)' /\ ~At(t, "take_pictures", 3))
                  => /\ Top(t).f = "execute_commands"
                     /\ ~BatchPar(Top(t))
                     /\ Top(t).cmds = <<Cmd(0, Head(Top(t).steps'), "")>>
                     /\ Batch(t) # {}
                     /\ \A w \in Batch(t) :
                           w.st = "done" /\ w.axis = 0 /\ w.end = Head(Top(t).steps')
             /\ (At(t, "take_pictures", 3) /\ prog'[t] # prog[t]
                    /\ status'[t] # "raised")
                  => /\ {w \in run : w.t = t} = {}
                     /\ trace' = Append(trace, Ev("take_picture",
                                         <<Head(Top(t).steps), 0>>, Top(t).flag))
                     /\ Top(t).steps' = Tail(Top(t).steps)
             /\ (\E k \in PictureFrames(t) :
                     Len(prog'[t]) = Len(prog[t]) /\ prog'[t][k].steps # prog[t][k].steps)
                  => At(t, "take_pictures", 3)]_vars

\* take_pictures has returned from a list of two steps, both captured
C32_Witness ==
    /\ trace # <<>>
    /\ trace[1].e = "take_pictures"
    /\ status[Main] = "returned"
    /\ PassCaptures = <<2000, 1000>>

\* the session is at its drop move or at the magnet.off() after it
Carrying ==
    /\ prog[Main] # <<>>
    /\ \/ Top(Main).f = "move_to_position" /\ Top(Main).flag
       \/ Top(Main).f = "magnet_off"

\* the last magnet call of the session is an on() that came right after the
\* end of a pick move
SwitchedOnAfterPick ==
    \E i \in DOMAIN trace :
        /\ i > 1
        /\ trace[i].e = "on"
        /\ trace[i - 1].e = "moved" /\ ~trace[i - 1].flag
        /\ \A j \in DOMAIN trace : j > i => ~IsToggle(trace[j])

\* C33: while infer_and_sort runs, and when it has returned, the magnet pin
\* is HIGH only from the magnet.on() after a completed pick move to the
\* magnet.off() after the matching drop move: it is LOW during the pick
\* moves, the capture passes, when reset_arm starts and at the return.
C33_MagnetHighOnlyCarrying ==
    (InSession /\ status[Main] \in {"busy", "returned"} /\ magnet = "HIGH")
        => Carrying /\ SwitchedOnAfterPick

\* the drop move of a session is under way with the magnet on
C33_Witness ==
    /\ InSession
    /\ magnet = "HIGH"
    /\ At(Main, "move_to_position", 3)
    /\ Top(Main).flag

----------------------------------------------------------------------------
\* Properties of Main

\* the loop of the script is at statement ph, whatever it has called
LoopAt(ph) ==
    /\ prog[Main] # <<>>
    /\ prog[Main][Len(prog[Main])].f = "__main__"
    /\ prog[Main][Len(prog[Main])].ph = ph

\* the heartbeat made last has found the Cloud connection open and
\* answering: a ping of it or of a new connection got its pong
Healthy(m) ==
    /\ m.cloud_websocket # "None"
    /\ m.cloud_open
    /\ m.checked \in {"ping_ok", "connected"}

\* C26 (as claimed): while the session a heartbeat cycle has started runs,
\* the Cloud connection is one that this heartbeat found open and
\* answering; with no connection, or only a closed one left from a failed
\* attempt, no session is started.
C26_SessionNeedsHealthyCloud == LoopAt(4) => Healthy(main)

\* C28 (as claimed): the cloud_conn_status a heartbeat has sent is 1 exactly
\* if the heartbeat ended with an open Cloud connection that answered a
\* ping, a connection opened with the saved host included.
C28_StatusTellsHealth ==
    At(Main, "__main__", 3) => (main.cloud_conn_status = 1 <=> Healthy(main))

\* thread t takes a step of heartbeat's first statement
ChecksCloud(t) == At(t, "heartbeat", 1) /\ prog'[t] # prog[t]

\* C29: a ping_cloud that fails closes the connection and sets
\* cloud_websocket to None at once; the heartbeat then reports status 0 with
\* no connection left, and the heartbeat after it calls connect_cloud: it
\* does not ping.
C29_DeadConnectionReplaced ==
    /\ [][\A t \in Threads :
             (ChecksCloud(t) /\ main'.checked = "ping_failed")
                => /\ main.cloud_websocket = "conn" /\ main.cloud_open
                   /\ main'.cloud_websocket = "None"
                   /\ ~main'.cloud_open
                   /\ main'.cloud_conn_status = 0
                   /\ At(t, "heartbeat", 3)']_vars
    /\ []((LoopAt(3) /\ main.checked = "ping_failed")
             => main.cloud_websocket = "None" /\ main.cloud_conn_status = 0)
    /\ [][\A t \in Threads :
             (ChecksCloud(t) /\ main.checked = "ping_failed")
                => /\ main'.checked \in Outcomes
                   /\ main'.cloud_url = main.cloud_host]_vars

\* the heartbeat after a failed ping is about to look at the connection
C29_Witness ==
    /\ At(Main, "heartbeat", 1)
    /\ main.checked = "ping_failed"
    /\ main.cloud_websocket = "None"
    /\ main.control_open

\* C30 (as claimed): cloud_host, in memory and in arm_config.yaml, changes
\* only in a get_cloud_host_and_connect whose attempt to connect to the host
\* the Control Panel named succeeded; when the attempt fails the method
\* returns 0 and the configuration is as before.
C30_HostSavedOnlyOnSuccess ==
    /\ [][(main'.cloud_host # main.cloud_host \/ main'.file # main.file)
             => /\ \E t \in Threads : At(t, "heartbeat", 2)
                /\ main'.checked = "connected"
                /\ main'.cloud_url = main'.cloud_host
                /\ main'.file = main'.cloud_host]_vars
    /\ [][\A t \in Threads :
             (At(t, "heartbeat", 2) /\ prog'[t] # prog[t] /\ main'.checked # "connected")
                => /\ main'.ret = 0
                   /\ main'.cloud_host = main.cloud_host
                   /\ main'.file = main.file]_vars

\* connect_control is running on some thread
Connecting == \E t \in Threads : At(t, "connect_control", 1)

=============================================================================
